---- MODULE Spec2Model ----
(***************************************************************************)
(* A model of deface (src/deface/deface.py): the box geometry (scale_bb),  *)
(* the redaction of one region (draw_det), the per-frame loop              *)
(* (anonymize_frame), the streaming loop of one item (video_detect,        *)
(* image_detect) and the command line driver (main).                       *)
(*                                                                         *)
(* Five specifications share the module:                                   *)
(*   SpecScale  applies scale_bb to one box drawn from a bounded set;      *)
(*   SpecFrame  runs anonymize_frame over a detection list on one frame;   *)
(*   SpecPath   derives the output paths of one invocation of main;        *)
(*   Spec       runs main on one invocation (camera, file or directory);   *)
(*   SpecVideo  runs main on one camera or video file, with fairness.      *)
(*                                                                         *)
(* Numbers.  numpy computes scale_bb in binary floating point.  The model  *)
(* computes it in exact rationals and draws the mask scale from fractions  *)
(* whose denominator is a power of two, for which (on the small integers   *)
(* used here) the floating point computation is exact as well.             *)
(*                                                                         *)
(* Pixels.  A frame is a grid of tags: "src" is the content the frame had  *)
(* when it was read, "ovcolor" the overlay colour cv2.rectangle fills     *)
(* with, "blur" the output of cv2.blur.  A pixel that was written counts   *)
(* as changed: the source content is taken to differ from the overlay      *)
(* colour and from its own local mean.  Text drawn by cv2.putText is kept  *)
(* as the list of the calls made on the frame.                             *)
(***************************************************************************)
EXTENDS Integers, Sequences, FiniteSets, TLC

----------------------------------------------------------------------------
(* Bounds of the model. *)

\* scale_bb alone: box coordinates range over -MaxCoord..MaxCoord
MaxCoord == 3
\* mask scales are n/d with n in 0..MaxScaleNum and d in ScaleDens
MaxScaleNum == 8
\* frames are w x h with w in 1..MaxW and h in 1..MaxH
MaxW == 3
MaxH == 3
\* detection boxes reach at most MaxOut pixels beyond the frame
MaxOut == 1
\* detections per frame
MaxDets == 2
\* files found in a directory
MaxItems == 3
\* path names are sequences of at most MaxNameLen symbols
MaxNameLen == 4
\* frames of a video file, and frames taken from a camera
MaxFrames == 2

ScaleDens == {1, 2, 4}

----------------------------------------------------------------------------
(* Arithmetic used by the source. *)

Abs(x) == IF x < 0 THEN -x ELSE x

Min(a, b) == IF a <= b THEN a ELSE b

Max(a, b) == IF a >= b THEN a ELSE b

\* np.round on the rational n/d (d > 0): to the nearest integer, a tie to
\* the even neighbour
NpRound(n, d) ==
    LET f == n \div d
        r == n - f * d
    IN  IF 2 * r < d THEN f
        ELSE IF 2 * r > d THEN f + 1
        ELSE IF f % 2 = 0 THEN f ELSE f + 1

\* ndarray.astype(int) on the detector's float h/2: truncation toward zero
AsInt(h) == IF h >= 0 THEN h \div 2 ELSE -((-h) \div 2)

----------------------------------------------------------------------------
(* scale_bb, lines 23-30.  A box is <<x1, y1, x2, y2>>, a mask scale the   *)
(* fraction m[1]/m[2].                                                     *)

\* a mutant of scale_bb: the box is moved, not grown (y1 += h*s, x1 += w*s)
scale_bb_shift(x1, y1, x2, y2, m) ==
    LET sn == m[1] - m[2]
        sd == m[2]
        h  == y2 - y1
        w  == x2 - x1
    IN  << NpRound(x1 * sd + w * sn, sd), NpRound(y1 * sd + h * sn, sd),
           NpRound(x2 * sd + w * sn, sd), NpRound(y2 * sd + h * sn, sd) >>

scale_bb(x1, y1, x2, y2, m) ==
    LET sn == m[1] - m[2]      \* s = mask_scale - 1.0 = sn/sd
        sd == m[2]
        h  == y2 - y1
        w  == x2 - x1
    IN  << NpRound(x1 * sd - w * sn, sd), NpRound(y1 * sd - h * sn, sd),
           NpRound(x2 * sd + w * sn, sd), NpRound(y2 * sd + h * sn, sd) >>

----------------------------------------------------------------------------
(* draw_det, lines 33-62.  A frame is [w, h, pix, labels]: pix maps the     *)
(* pixel <<y, x>> (row, column, as numpy indexes it) to its tag.            *)

NewFrame(w, h) ==
    [ w |-> w, h |-> h,
      pix |-> [p \in (0..(h - 1)) \X (0..(w - 1)) |-> "src"],
      labels |-> <<>> ]

Paint(frame, S, tag) ==
    [frame EXCEPT !.pix =
        [p \in DOMAIN frame.pix |-> IF p \in S THEN tag ELSE frame.pix[p]]]

\* cv2.rectangle(frame, (x1, y1), (x2, y2), ovcolor, -1), line 41: the filled
\* rectangle spanned by two opposite corners, both included, in either
\* order, cut to the image
Cv2Rectangle(frame, x1, y1, x2, y2) ==
    Paint(frame,
          { p \in DOMAIN frame.pix :
              /\ Min(y1, y2) <= p[1] /\ p[1] <= Max(y1, y2)
              /\ Min(x1, x2) <= p[2] /\ p[2] <= Max(x1, x2) },
          "ovcolor")

\* a bound of a numpy slice a:b over an axis of length n: a negative bound
\* counts from the end, and both are cut to 0..n
PyBound(i, n) == IF i < 0 THEN Max(i + n, 0) ELSE Min(i, n)

\* the indices of frame[a:b] along an axis of length n, lines 45, 49, 53, 55
PySlice(a, b, n) == { i \in 0..(n - 1) : PyBound(a, n) <= i /\ i < PyBound(b, n) }

\* skimage.draw.ellipse(r, c, r, c), line 51: the points strictly inside
\* the ellipse of centre (r, c) and radii (r, c), as offsets <<ey, ex>>
SkEllipse(r, c) ==
    LET ar  == Abs(r)
        ac  == Abs(c)
        ulr == r - ar          \* upper_left = ceil(center - |radii|)
        ulc == c - ac
    IN  { << q[1] + ulr, q[2] + ulc >> :
            q \in { q \in (0..(2 * ar)) \X (0..(2 * ac)) :
                      (q[1] - ar) * (q[1] - ar) * c * c
                        + (q[2] - ac) * (q[2] - ac) * r * r  <  r * r * c * c } }

\* lines 43-55: cv2.blur of the slice, copied back whole or inside the
\* ellipse.  cv2.blur raises on an empty source and on a kernel with a zero
\* side; an index array outside the slice raises IndexError
BlurRegion(frame, x1, y1, x2, y2, ellipse) ==
    LET rows == PySlice(y1, y2, frame.h)
        cols == PySlice(x1, x2, frame.w)
        kw   == Abs(x2 - x1) \div 2
        kh   == Abs(y2 - y1) \div 2
        nr   == Cardinality(rows)
        nc   == Cardinality(cols)
        r0   == PyBound(y1, frame.h)
        c0   == PyBound(x1, frame.w)
        E    == SkEllipse((y2 - y1) \div 2, (x2 - x1) \div 2)
        Wrap(i, n) == IF i < 0 THEN i + n ELSE i
    IN  IF rows = {} \/ cols = {} \/ kw = 0 \/ kh = 0
        THEN [frame |-> frame, err |-> "cv2.error"]
        ELSE IF ~ellipse
        THEN [frame |-> Paint(frame, rows \X cols, "blur"), err |-> "none"]
        ELSE IF \E e \in E : e[1] < -nr \/ e[1] >= nr \/ e[2] < -nc \/ e[2] >= nc
        THEN [frame |-> frame, err |-> "IndexError"]
        ELSE [frame |-> Paint(frame,
                              { << r0 + Wrap(e[1], nr), c0 + Wrap(e[2], nc) >> : e \in E },
                              "blur"),
              err |-> "none"]

\* a mutant of Redact: mode 'none' falls through to the solid fill
Redact_none_fills(frame, x1, y1, x2, y2, replacewith, ellipse) ==
    IF replacewith = "blur"
    THEN BlurRegion(frame, x1, y1, x2, y2, ellipse)
    ELSE [frame |-> Cv2Rectangle(frame, x1, y1, x2, y2), err |-> "none"]

\* lines 40-57: the redaction itself
Redact(frame, x1, y1, x2, y2, replacewith, ellipse) ==
    CASE replacewith = "solid" ->
           [frame |-> Cv2Rectangle(frame, x1, y1, x2, y2), err |-> "none"]
      [] replacewith = "blur" -> BlurRegion(frame, x1, y1, x2, y2, ellipse)
      [] OTHER -> [frame |-> frame, err |-> "none"]

\* cv2.putText, lines 59-62: the label and where it is drawn
PutText(frame, det_idx, score, x1, y1) ==
    [frame EXCEPT !.labels =
        Append(@, [n |-> det_idx + 1, score |-> score, org |-> << x1 + 0, y1 - 20 >>])]

draw_det(frame, score, det_idx, x1, y1, x2, y2, replacewith, ellipse, enumerate_dets) ==
    LET red == Redact(frame, x1, y1, x2, y2, replacewith, ellipse)
    IN  IF red.err # "none" THEN red
        ELSE IF enumerate_dets
        THEN [frame |-> PutText(red.frame, det_idx, score, x1, y1), err |-> "none"]
        ELSE red

----------------------------------------------------------------------------
(* anonymize_frame, lines 65-82. *)

\* lines 74-75: y1, y2 = max(0, y1), min(frame.shape[0] - 1, y2), and x alike
ClipBB(b, frame) ==
    << Max(0, b[1]), Max(0, b[2]), Min(frame.w - 1, b[3]), Min(frame.h - 1, b[4]) >>

\* lines 70-72: the detection's box as integers, scaled
ScaledBox(det, mask_scale) ==
    scale_bb(AsInt(det.box[1]), AsInt(det.box[2]), AsInt(det.box[3]), AsInt(det.box[4]),
             mask_scale)

----------------------------------------------------------------------------
VARIABLES
    sbIn,      \* scale_bb: the arguments [box, m]
    sbOut,     \* scale_bb: the value returned, <<>> before the call
    frame,     \* anonymize_frame: the frame, mutated in place
    dets,      \* anonymize_frame: the detections, each [box, score]
    cfg,       \* anonymize_frame: mask_scale, replacewith, ellipse, enumerate_dets
    di,        \* anonymize_frame: the next detection of the loop (1-based)
    box,       \* anonymize_frame: x1, y1, x2, y2 after scale_bb (line 72)
    region,    \* anonymize_frame: x1, y1, x2, y2 passed to draw_det (line 77)
    ferr,      \* anonymize_frame: the error that ended it, or "none"
    args,      \* main: the command line [input, output, disable_gui, thresh]
    paths,     \* main: the files to process, each [mime, fault]
    mpc,       \* main: where it stands
    i,         \* main: the item being processed (index into paths)
    vpc,       \* video_detect: where it stands, "idle" outside of it
    reader,    \* per item: its reader, "none", "open" or "closed"
    writer,    \* per item: its writer
    bar,       \* per item: its progress indicator
    sink,      \* per item: the frames appended to its writer
    progress,  \* per item: the number of bar.update() calls
    saved,     \* the items whose image was saved by image_detect
    nframes,   \* video_detect: the total given to the bar, -1 for None
    cur,       \* video_detect: the number of the frame in hand (0: none yet)
    vframe,    \* video_detect, image_detect: the frame in hand
    quit,      \* video_detect: the loop was left by the quit key
    reports,   \* the messages printed, each [item, msg]
    exit,      \* the process: "running", "ok" (status 0) or "error"
    exc,       \* the exception that ended the process, or "none"
    pIn,       \* output paths: [ipath, output, isdir, listing] of one run of main
    pk,        \* output paths: the number of items whose opath was fixed
    pOut       \* output paths: per item, [ipath, opath] as passed on

scaleVars == << sbIn, sbOut >>

pathVars == << pIn, pk, pOut >>

frameVars == << frame, dets, cfg, di, box, region, ferr >>

\* the variables of SpecScale and SpecFrame, which main leaves alone
pureVars == << sbIn, sbOut, frame, dets, cfg, di, box, region, ferr, pIn, pk, pOut >>

handleVars == << reader, writer, bar >>

mainVars == << args, paths, mpc, i, vpc, reader, writer, bar, sink, progress, saved,
               nframes, cur, vframe, quit, reports, exit, exc >>

vars == << sbIn, sbOut, frame, dets, cfg, di, box, region, ferr,
           args, paths, mpc, i, vpc, reader, writer, bar, sink, progress, saved,
           nframes, cur, vframe, quit, reports, exit, exc, pIn, pk, pOut >>

\* no frame in hand
NoFrame ==
    [n |-> 0, stage |-> "none", thr |-> 0, dets |-> <<>>, handed |-> <<>>,
     masked |-> <<>>]

MainIdle ==
    /\ args = <<>> /\ paths = <<>> /\ mpc = "idle" /\ i = 0 /\ vpc = "idle"
    /\ reader = <<>> /\ writer = <<>> /\ bar = <<>> /\ sink = <<>> /\ progress = <<>>
    /\ saved = {} /\ nframes = 0 /\ cur = 0 /\ vframe = NoFrame
    /\ quit = FALSE /\ reports = <<>>
    /\ exit = "running" /\ exc = "none"

ScaleIdle == sbIn = <<>> /\ sbOut = <<>>

PathIdle == pIn = <<>> /\ pk = 0 /\ pOut = <<>>

FrameIdle ==
    /\ frame = <<>> /\ dets = <<>> /\ cfg = <<>> /\ di = 0
    /\ box = <<>> /\ region = <<>> /\ ferr = "none"

----------------------------------------------------------------------------
(* SpecScale: one call of scale_bb. *)

Coords == (-MaxCoord)..MaxCoord

Scales == (0..MaxScaleNum) \X ScaleDens

InitScale ==
    /\ sbIn \in [box : Coords \X Coords \X Coords \X Coords, m : Scales]
    /\ sbOut = <<>>
    /\ FrameIdle
    /\ MainIdle
    /\ PathIdle

CallScaleBB ==
    /\ sbIn # <<>>
    /\ sbOut = <<>>
    /\ sbOut' = scale_bb(sbIn.box[1], sbIn.box[2], sbIn.box[3], sbIn.box[4], sbIn.m)
    /\ UNCHANGED << sbIn, frameVars, mainVars, pathVars >>

NextScale == CallScaleBB

SpecScale == InitScale /\ [][NextScale]_vars

----------------------------------------------------------------------------
(* SpecFrame: one call of anonymize_frame. *)

\* the detector's boxes on a w x h frame, in half pixels: x1 <= x2 and
\* y1 <= y2, reaching up to MaxOut pixels beyond the frame
DetBoxes(w, h) ==
    { << 2 * x1 + f, 2 * y1 + f, 2 * x2 + f, 2 * y2 + f >> :
        << x1, x2, y1, y2, f >> \in
          { q \in ((-MaxOut)..(w - 1 + MaxOut)) \X ((-MaxOut)..(w - 1 + MaxOut))
                    \X ((-MaxOut)..(h - 1 + MaxOut)) \X ((-MaxOut)..(h - 1 + MaxOut))
                    \X {0, 1} :
                q[1] <= q[2] /\ q[3] <= q[4] } }

Scores == {30, 90}

MaskScales == { <<4, 4>>, <<3, 2>> }

\* boxes for the longer lists: the whole frame, a box across the left and
\* top edge, and an empty box beyond the right and bottom edge
CornerBoxes(w, h) ==
    { << 2 * ix[1], 2 * iy[1], 2 * ix[2], 2 * iy[2] >> :
        << ix, iy >> \in
          { << 0, w - 1 >>, << -MaxOut, 0 >>, << w - 1 + MaxOut, w - 1 + MaxOut >> }
          \X { << 0, h - 1 >>, << -MaxOut, 0 >>, << h - 1 + MaxOut, h - 1 + MaxOut >> } }

\* the detection lists of one frame: no detection, one detection with any
\* box, or up to MaxDets detections with boxes of CornerBoxes
DetLists(w, h) ==
    { <<>> }
    \cup { << d >> : d \in [box : DetBoxes(w, h), score : Scores] }
    \cup UNION { [1..n -> [box : CornerBoxes(w, h), score : {90}]] : n \in 2..MaxDets }

InitFrame ==
    /\ ScaleIdle
    /\ MainIdle
    /\ PathIdle
    /\ \E w \in 1..MaxW, h \in 1..MaxH :
         /\ frame = NewFrame(w, h)
         /\ dets \in DetLists(w, h)
    /\ cfg \in [ mask_scale : MaskScales, replacewith : {"solid", "blur", "none"},
                 ellipse : BOOLEAN, enumerate_dets : BOOLEAN ]
    /\ di = 1
    /\ box = <<>>
    /\ region = <<>>
    /\ ferr = "none"

\* one pass of the loop of line 69
AnonymizeDet ==
    /\ frame # <<>>
    /\ ferr = "none"
    /\ di <= Len(dets)
    /\ LET det == dets[di]
           b   == ScaledBox(det, cfg.mask_scale)
           r   == ClipBB(b, frame)
           res == draw_det(frame, det.score, di - 1, r[1], r[2], r[3], r[4],
                           cfg.replacewith, cfg.ellipse, cfg.enumerate_dets)
       IN  /\ box' = b
           /\ region' = r
           /\ frame' = res.frame
           /\ ferr' = res.err
           /\ di' = di + 1
    /\ UNCHANGED << dets, cfg, scaleVars, mainVars, pathVars >>

NextFrame == AnonymizeDet

SpecFrame == InitFrame /\ [][NextFrame]_vars

----------------------------------------------------------------------------
(* SpecPath: the output paths of one invocation of main.                   *)
(*                                                                         *)
(* A path is a sequence of symbols: "a" stands for an ordinary character,  *)
(* "." and "/" for themselves, "_anonymized" and "<video" for the strings  *)
(* of that spelling.                                                       *)

Symbols == {"a", ".", "/", "_anonymized", "<video"}

Names == UNION { [1..n -> Symbols] : n \in 1..MaxNameLen }

\* opath = None
None == << "None" >>

\* --output: absent, or one of two names
Outputs == { None, << "a" >>, << "a", ".", "a" >> }

\* what glob finds for the pattern of line 275 with the default --ext: names
\* with a "." in them, none of them hidden
GlobNames ==
    { n \in UNION { [1..k -> {"a", ".", "_anonymized"}] : k \in 1..MaxNameLen } :
        n[1] # "." /\ \E k \in 1..Len(n) : n[k] = "." }

\* the results of glob: one file, or two different files in either order
Listings ==
    { <<>> } \cup { << n >> : n \in GlobNames }
    \cup { << n, m >> : << n, m >> \in { q \in GlobNames \X GlobNames : q[1] # q[2] } }

\* the last position of symbol c in p, 0 if there is none
LastIndex(p, c) ==
    LET S == { k \in 1..Len(p) : p[k] = c }
    IN  IF S = {} THEN 0 ELSE CHOOSE k \in S : \A j \in S : j <= k

\* os.path.splitext: the extension starts at the last "." of the last
\* component, unless only "." precede it there
splitext(p) ==
    LET sep == LastIndex(p, "/")
        dot == LastIndex(p, ".")
    IN  IF dot > sep /\ \E k \in (sep + 1)..(dot - 1) : p[k] # "."
        THEN << SubSeq(p, 1, dot - 1), SubSeq(p, dot, Len(p)) >>
        ELSE << p, <<>> >>

\* a mutant of anonymized_path: the suffix is put after the extension
anonymized_path_appended(p) == p \o << "_anonymized" >>

\* lines 239-240 and 278-279: f'{root}_anonymized{ext}'
anonymized_path(p) ==
    LET rx == splitext(p) IN rx[1] \o << "_anonymized" >> \o rx[2]

\* line 236: ipath.startswith('<video')
startswith_video(p) == p[1] = "<video"

\* lines 238-240
opath_single(ipath, output) ==
    IF output = None /\ ~startswith_video(ipath) THEN anonymized_path(ipath) ELSE output

\* line 280: what mimetypes.guess_type(p)[0] can be for the name p.  It goes
\* by the extension: None unless the extension is a "." followed by ordinary
\* characters only, and then video/..., image/..., another type or None
MimeTypes == {"video", "image", "other", "none"}

guess_type(p) ==
    LET ext == splitext(p)[2]
    IN  IF Len(ext) >= 2 /\ \A k \in 2..Len(ext) : ext[k] = "a"
        THEN MimeTypes
        ELSE {"none"}

\* lines 280-308, one turn of the loop: the type guessed for the file, and
\* whether video_detect or image_detect, called without a try, raises on it
Turns == { t \in [mime : MimeTypes, raises : BOOLEAN] :
             t.raises => t.mime \in {"video", "image"} }

TurnsOf(l) == { t \in [1..Len(l) -> Turns] : \A k \in 1..Len(l) : t[k].mime \in guess_type(l[k]) }

\* lines 281-306: the turn of the loop for a file leaves the loop and main
\* with an exception: AttributeError of mime.startswith when the type is
\* None (line 281), or the exception of video_detect or image_detect
LeavesLoop(t) == t.mime = "none" \/ t.raises

InitPath ==
    /\ ScaleIdle
    /\ FrameIdle
    /\ MainIdle
    /\ pIn \in [ipath : Names, output : Outputs, isdir : {FALSE}, listing : { <<>> },
                turns : { <<>> }]
               \cup UNION { [ipath : { << "a" >> }, output : Outputs, isdir : {TRUE},
                             listing : { l }, turns : TurnsOf(l)] : l \in Listings }
    /\ pk = 0
    /\ pOut = <<>>

\* lines 236-271: a camera or a single file, and the opath passed to
\* video_detect or image_detect
PathSingle ==
    /\ pIn # <<>>
    /\ startswith_video(pIn.ipath) \/ ~pIn.isdir
    /\ pk = 0
    /\ pOut' = << [ipath |-> pIn.ipath, opath |-> opath_single(pIn.ipath, pIn.output)] >>
    /\ pk' = 1
    /\ UNCHANGED << pIn, scaleVars, frameVars, mainVars >>

\* lines 274-308: the next file of the directory, and the opath derived for
\* it at line 279, before its type is looked at.  The loop comes to the next
\* file only when the turn of the one before has not left it
PathBatch ==
    /\ pIn # <<>>
    /\ ~startswith_video(pIn.ipath) /\ pIn.isdir
    /\ pk < Len(pIn.listing)
    /\ pk >= 1 => ~LeavesLoop(pIn.turns[pk])
    /\ pOut' = Append(pOut, [ipath |-> pIn.listing[pk + 1],
                             opath |-> anonymized_path(pIn.listing[pk + 1])])
    /\ pk' = pk + 1
    /\ UNCHANGED << pIn, scaleVars, frameVars, mainVars >>

NextPath == PathSingle \/ PathBatch

SpecPath == InitPath /\ [][NextPath]_vars

----------------------------------------------------------------------------
(* main, video_detect and image_detect.                                    *)
(*                                                                         *)
(* What the environment does to an item is the item's fault: the call of  *)
(* that name raises for it (centerface and append_data: may raise, on any  *)
(* frame).  Only the closes the code itself performs are counted; a handle *)
(* that is dropped without close() stays "open".                           *)

VideoFaults == {"ok", "get_reader", "get_meta_data", "get_writer", "centerface", "append_data"}

ImageFaults == {"ok", "imread", "centerface", "imsave"}

\* what glob can find: videos, images, files of another type (a .txt) and
\* files whose type mimetypes.guess_type does not know (None)
Items ==
    [mime : {"video"}, fault : VideoFaults]
    \cup [mime : {"image"}, fault : ImageFaults]
    \cup [mime : {"text", "none"}, fault : {"ok"}]

\* line 236: cam = ipath.startswith('<video')
cam == args.input = "camera"

\* lines 238-240 and 279: opath is None only for a camera without --output
opathSet == ~(cam /\ ~args.output)

\* line 224, and show=False at line 293
show == args.input # "dir" /\ ~args.disable_gui

batch == args.input = "dir"

NoHandles(n) == [k \in 1..n |-> "none"]

\* a handle (reader, writer, progress indicator) is "none" before it is
\* opened, then "open", then "closed"; any other use of it is kept as the
\* misuse it is
Open(h) == IF h = "none" THEN "open" ELSE "reopened"

\* a read, an append or an update on the handle
Use(h) == IF h = "open" THEN "open" ELSE IF h = "none" THEN "unbound" ELSE "used after close"

Close(h) == IF h = "open" THEN "closed" ELSE IF h = "none" THEN "unbound" ELSE "closed twice"

\* --thresh, in hundredths
Thresholds == {20, 50}

\* line 188: the default of --thresh, the lowest threshold drawn
threshold_default == CHOOSE t \in Thresholds : \A u \in Thresholds : t <= u

\* line 226
threshold == args.thresh

\* the detector (deface.centerface.CenterFace, not part of the sources
\* modelled here): the scores, in hundredths, of the candidate faces of
\* frame n, and the call centerface(frame, threshold=t), which returns the
\* candidates whose score reaches the threshold, in their order
Candidates(n) == << 10, 30, 90 >>

AtLeast(sc, t) == sc >= t

CenterFace(n, t) == SelectSeq(Candidates(n), LAMBDA sc : AtLeast(sc, t))

\* line 131 and line 165: frame n as it comes from the reader
ReadFrame(n) ==
    [n |-> n, stage |-> "read", thr |-> 0, dets |-> <<>>, handed |-> <<>>,
     masked |-> <<>>]

\* lines 133 and 168: dets, _ = centerface(frame, threshold=threshold)
Detect(f, t) ==
    [f EXCEPT !.stage = "detected", !.thr = t, !.dets = CenterFace(f.n, t)]

\* lines 133 and 168: the detector raises
DetectRaises(f, t) == [f EXCEPT !.stage = "detector raised", !.thr = t]

\* a mutant of anonymize_dets: the core filters the detections once more
anonymize_dets_filtered(d) == SelectSeq(d, LAMBDA sc : AtLeast(sc, 50))

\* lines 136 and 171: the detections passed on to anonymize_frame
anonymize_dets(d) == d

\* lines 135-138 and 170-173: anonymize_frame is called without a try.  It
\* calls draw_det once per detection, and in mode blur draw_det raises
\* cv2.error when the clipped region is empty or less than two pixels wide
\* or high (lines 44-47), and IndexError when the ellipse of the box does
\* not fit the slice the region selects (lines 51-52), as for a box wholly
\* beyond the left or the top edge (BlurRegion).  Boxes and mode are not
\* part of the state of main: the call may raise either error whenever
\* there is a detection.
AnonymizeCanRaise(f) == anonymize_dets(f.dets) # <<>>

AnonymizeErrors == {"cv2.error", "IndexError"}

\* lines 135-138 and 170-173: anonymize_frame(dets, frame, ...) redacts the
\* frame in place, one region per detection handed to it
Anonymize(f) ==
    [f EXCEPT !.stage = "anonymized", !.handed = anonymize_dets(f.dets),
              !.masked = anonymize_dets(f.dets)]

\* lines 69-82: the loop of anonymize_frame calls draw_det on the frame
\* itself, one detection after the other.  When draw_det raises on the k-th
\* detection handed over (lines 44-47 and 52 raise before they assign to the
\* frame), the detections before it are redacted in the frame already, and
\* the k-th and those after it are not
AnonymizeRaises(f, k) ==
    [f EXCEPT !.stage = "anonymize raised", !.handed = anonymize_dets(f.dets),
              !.masked = SubSeq(anonymize_dets(f.dets), 1, k - 1)]

InitMain ==
    /\ ScaleIdle
    /\ FrameIdle
    /\ PathIdle
    /\ args \in [input : {"camera", "file", "dir", "missing"},
                 output : BOOLEAN, disable_gui : BOOLEAN, thresh : Thresholds]
    \* a directory run ignores --output (line 279) and --disable-gui (line
    \* 293): it is drawn with both options absent or both present
    /\ args.input = "dir" =>
          /\ args.output = args.disable_gui
          /\ args.output = (args.thresh = threshold_default)
    /\ CASE args.input = "camera" ->
              paths \in { << it >> : it \in [mime : {"none"}, fault : VideoFaults] }
         [] args.input = "file" -> paths \in { << it >> : it \in Items }
         [] args.input = "dir" -> paths \in UNION { [1..n -> Items] : n \in 0..MaxItems }
         [] OTHER -> paths = <<>>
    /\ mpc = "main"
    /\ i = 0
    /\ vpc = "idle"
    /\ reader = NoHandles(Len(paths))
    /\ writer = NoHandles(Len(paths))
    /\ bar = NoHandles(Len(paths))
    /\ sink = [k \in 1..Len(paths) |-> <<>>]
    /\ progress = [k \in 1..Len(paths) |-> 0]
    /\ saved = {}
    /\ nframes = 0
    /\ cur = 0
    /\ vframe = NoFrame
    /\ quit = FALSE
    /\ reports = <<>>
    /\ exit = "running"
    /\ exc = "none"

\* an exception nobody catches: it leaves video_detect and main, and the
\* interpreter exits with a nonzero status
Raise(e) ==
    /\ exc' = e
    /\ exit' = "error"
    /\ mpc' = "exit"
    /\ vpc' = "idle"

\* video_detect(...) is entered for item k
EnterVideo(k) ==
    /\ i' = k
    /\ mpc' = "video"
    /\ vpc' = "get_reader"
    /\ cur' = 0
    /\ vframe' = NoFrame
    /\ quit' = FALSE
    /\ nframes' = 0

\* video_detect returns to main: to the loop of line 277, or to the end
ReturnVideo ==
    /\ vpc' = "idle"
    /\ IF batch
       THEN mpc' = "loop" /\ UNCHANGED << exit >>
       ELSE mpc' = "exit" /\ exit' = "ok"

\* lines 236-275 and 310: the dispatch on the input
MainCamera ==
    /\ mpc = "main" /\ cam
    /\ UNCHANGED pureVars
    /\ EnterVideo(1)
    /\ UNCHANGED << args, paths, handleVars, sink, progress, saved, reports, exit, exc >>

\* lines 245-260
MainVideoFile ==
    /\ mpc = "main" /\ args.input = "file" /\ paths[1].mime = "video"
    /\ UNCHANGED pureVars
    /\ EnterVideo(1)
    /\ UNCHANGED << args, paths, handleVars, sink, progress, saved, reports, exit, exc >>

\* lines 261-271
MainImageFile ==
    /\ mpc = "main" /\ args.input = "file" /\ paths[1].mime = "image"
    /\ UNCHANGED pureVars
    /\ i' = 1
    /\ mpc' = "image"
    /\ UNCHANGED << args, paths, vframe, vpc, handleVars, sink, progress, saved, nframes, cur,
                    quit, reports, exit, exc >>

\* lines 246-247 with mime None (AttributeError), and line 273
MainUnknownFile ==
    /\ mpc = "main" /\ args.input = "file" /\ paths[1].mime \in {"text", "none"}
    /\ UNCHANGED pureVars
    /\ Raise(IF paths[1].mime = "none" THEN "AttributeError" ELSE "ValueError")
    /\ UNCHANGED << args, paths, vframe, i, handleVars, sink, progress, saved, nframes, cur,
                    quit, reports >>

\* lines 309-310
MainMissing ==
    /\ mpc = "main" /\ args.input = "missing"
    /\ UNCHANGED pureVars
    /\ Raise("FileNotFoundError")
    /\ UNCHANGED << args, paths, vframe, i, handleVars, sink, progress, saved, nframes, cur,
                    quit, reports >>

\* lines 274-276
MainDir ==
    /\ mpc = "main" /\ batch
    /\ UNCHANGED pureVars
    /\ mpc' = "loop"
    /\ UNCHANGED << args, paths, vframe, i, vpc, handleVars, sink, progress, saved, nframes, cur,
                    quit, reports, exit, exc >>

\* lines 277-295: the next file is a video
BatchVideo ==
    /\ mpc = "loop" /\ i < Len(paths) /\ paths[i + 1].mime = "video"
    /\ UNCHANGED pureVars
    /\ EnterVideo(i + 1)
    /\ UNCHANGED << args, paths, handleVars, sink, progress, saved, reports, exit, exc >>

\* lines 277-281 and 296-306: the next file is an image
BatchImage ==
    /\ mpc = "loop" /\ i < Len(paths) /\ paths[i + 1].mime = "image"
    /\ UNCHANGED pureVars
    /\ i' = i + 1
    /\ mpc' = "image"
    /\ UNCHANGED << args, paths, vframe, vpc, handleVars, sink, progress, saved, nframes, cur,
                    quit, reports, exit, exc >>

\* lines 277-281 and 307-308: the next file has another type
BatchSkip ==
    /\ mpc = "loop" /\ i < Len(paths) /\ paths[i + 1].mime = "text"
    /\ UNCHANGED pureVars
    /\ i' = i + 1
    /\ reports' = Append(reports, [item |-> i + 1, msg |-> "unknown MIME type"])
    /\ UNCHANGED << args, paths, vframe, mpc, vpc, handleVars, sink, progress, saved, nframes,
                    cur, quit, exit, exc >>

\* lines 280-281: mime is None, and None.startswith raises
BatchNoMime ==
    /\ mpc = "loop" /\ i < Len(paths) /\ paths[i + 1].mime = "none"
    /\ UNCHANGED pureVars
    /\ i' = i + 1
    /\ Raise("AttributeError")
    /\ UNCHANGED << args, paths, vframe, handleVars, sink, progress, saved, nframes, cur,
                    quit, reports >>

\* line 277: the loop is over, main returns
BatchEnd ==
    /\ mpc = "loop" /\ i = Len(paths)
    /\ UNCHANGED pureVars
    /\ mpc' = "exit"
    /\ exit' = "ok"
    /\ UNCHANGED << args, paths, vframe, i, vpc, handleVars, sink, progress, saved, nframes, cur,
                    quit, reports, exc >>

\* image_detect, lines 165-175: imread, centerface, anonymize_frame and
\* imsave in turn; the first of them that raises ends it (anonymize_frame
\* with the detections before the raising one redacted in the frame)
ImageDetect ==
    /\ mpc = "image"
    /\ UNCHANGED pureVars
    /\ LET detected == Detect(ReadFrame(1), threshold)
       IN  \/ /\ paths[i].fault = "imread"
              /\ vframe' = NoFrame
              /\ Raise("imread")
              /\ UNCHANGED saved
           \/ /\ paths[i].fault = "centerface"
              /\ vframe' = DetectRaises(ReadFrame(1), threshold)
              /\ Raise("centerface")
              /\ UNCHANGED saved
           \/ /\ paths[i].fault \in {"ok", "imsave"}
              /\ AnonymizeCanRaise(detected)
              /\ \E k \in 1..Len(anonymize_dets(detected.dets)) :
                    vframe' = AnonymizeRaises(detected, k)
              /\ \E e \in AnonymizeErrors : Raise(e)
              /\ UNCHANGED saved
           \/ /\ paths[i].fault = "imsave"
              /\ vframe' = Anonymize(detected)
              /\ Raise("imsave")
              /\ UNCHANGED saved
           \/ /\ paths[i].fault = "ok"
              /\ vframe' = Anonymize(detected)
              /\ saved' = saved \cup {i}
              /\ IF batch
                 THEN mpc' = "loop" /\ UNCHANGED << exit >>
                 ELSE mpc' = "exit" /\ exit' = "ok"
              /\ UNCHANGED << vpc, exc >>
    /\ UNCHANGED << args, paths, i, handleVars, sink, progress, nframes, cur, quit, reports >>

\* lines 106-111: the except branch of video_detect
ExceptOpen ==
    /\ reports' = Append(reports,
                         [item |-> i,
                          msg |-> IF cam THEN "Could not find video device"
                                         ELSE "Could not open file"])
    /\ ReturnVideo

\* line 103
VGetReader ==
    /\ vpc = "get_reader"
    /\ UNCHANGED pureVars
    /\ IF paths[i].fault = "get_reader"
       THEN ExceptOpen /\ UNCHANGED reader
       ELSE /\ reader' = [reader EXCEPT ![i] = Open(@)]
            /\ vpc' = "get_meta_data"
            /\ UNCHANGED << mpc, exit, reports >>
    /\ UNCHANGED << args, paths, vframe, i, writer, bar, sink, progress, saved, nframes, cur,
                    quit, exc >>

\* lines 104-105
VGetMetaData ==
    /\ vpc = "get_meta_data"
    /\ UNCHANGED pureVars
    /\ IF paths[i].fault = "get_meta_data"
       THEN ExceptOpen
       ELSE /\ vpc' = "bar"
            /\ UNCHANGED << mpc, exit, reports >>
    /\ UNCHANGED << args, paths, vframe, i, handleVars, sink, progress, saved, nframes, cur,
                    quit, exc >>

\* lines 113-122: the frame iterator, the frame count and the bar
VBar ==
    /\ vpc = "bar"
    /\ UNCHANGED pureVars
    /\ IF cam THEN nframes' = -1 ELSE nframes' \in 0..MaxFrames
    /\ bar' = [bar EXCEPT ![i] = Open(@)]
    /\ vpc' = "get_writer"
    /\ UNCHANGED << args, paths, vframe, mpc, i, reader, writer, sink, progress, saved, cur,
                    quit, reports, exit, exc >>

\* lines 124-129
VGetWriter ==
    /\ vpc = "get_writer"
    /\ UNCHANGED pureVars
    /\ IF ~opathSet
       THEN vpc' = "read" /\ UNCHANGED << writer, mpc, exit, exc >>
       ELSE IF paths[i].fault = "get_writer"
       THEN Raise("get_writer") /\ UNCHANGED writer
       ELSE /\ writer' = [writer EXCEPT ![i] = Open(@)]
            /\ vpc' = "read"
            /\ UNCHANGED << mpc, exit, exc >>
    /\ UNCHANGED << args, paths, vframe, i, reader, bar, sink, progress, saved, nframes, cur,
                    quit, reports >>

\* a mutant of exhausted: the file is read the way a camera is
exhausted_never == cam /\ cur = nframes

\* lines 85-87 and 117: reader.iter_data() ends after the last frame of the
\* file; cam_read_iter never ends
exhausted == ~cam /\ cur = nframes

\* line 131: the next frame, or the end of the file; a camera has no end
VRead ==
    /\ vpc = "read"
    /\ UNCHANGED pureVars
    /\ reader' = [reader EXCEPT ![i] = Use(@)]
    /\ IF exhausted
       THEN vpc' = "close_reader" /\ UNCHANGED << cur, vframe >>
       ELSE /\ cur < MaxFrames
            /\ cur' = cur + 1
            /\ vframe' = ReadFrame(cur + 1)
            /\ vpc' = "centerface"
    /\ UNCHANGED << args, paths, mpc, i, writer, bar, sink, progress, saved, nframes,
                    quit, reports, exit, exc >>

\* a mutant of VDetect: an error of the detector is caught and the frame is
\* processed as if nothing had been detected
VDetect_masked ==
    /\ vpc = "centerface"
    /\ UNCHANGED pureVars
    /\ \/ vframe' = Detect(vframe, threshold)
       \/ paths[i].fault = "centerface" /\ vframe' = DetectRaises(vframe, threshold)
    /\ vpc' = "anonymize_frame"
    /\ UNCHANGED << args, paths, i, mpc, exit, exc, handleVars, sink, progress, saved,
                    nframes, cur, quit, reports >>

\* line 133
VDetect ==
    /\ vpc = "centerface"
    /\ UNCHANGED pureVars
    /\ \/ /\ vframe' = Detect(vframe, threshold)
          /\ vpc' = "anonymize_frame"
          /\ UNCHANGED << mpc, exit, exc >>
       \/ /\ paths[i].fault = "centerface"
          /\ vframe' = DetectRaises(vframe, threshold)
          /\ Raise("centerface")
    /\ UNCHANGED << args, paths, i, handleVars, sink, progress, saved, nframes, cur,
                    quit, reports >>

\* a mutant of VAnonymize: the frame goes on to the sink as it was read
VAnonymize_skipped ==
    /\ vpc = "anonymize_frame"
    /\ UNCHANGED pureVars
    /\ vpc' = "append_data"
    /\ UNCHANGED << args, paths, vframe, mpc, i, handleVars, sink, progress, saved,
                    nframes, cur, quit, reports, exit, exc >>

\* lines 135-138: anonymize_frame returns, or draw_det raises in it on one
\* of the detections, with the earlier ones redacted, and the exception
\* leaves video_detect
VAnonymize ==
    /\ vpc = "anonymize_frame"
    /\ UNCHANGED pureVars
    /\ \/ /\ vframe' = Anonymize(vframe)
          /\ vpc' = "append_data"
          /\ UNCHANGED << mpc, exit, exc >>
       \/ /\ AnonymizeCanRaise(vframe)
          /\ \E k \in 1..Len(anonymize_dets(vframe.dets)) :
                vframe' = AnonymizeRaises(vframe, k)
          /\ \E e \in AnonymizeErrors : Raise(e)
    /\ UNCHANGED << args, paths, i, handleVars, sink, progress, saved, nframes, cur,
                    quit, reports >>

\* a mutant of append_data: the frame is put in front of the stream
append_data_front(s, f) == << f >> \o s

\* writer.append_data(frame), line 141
append_data(s, f) == Append(s, f)

\* lines 140-141
VWrite ==
    /\ vpc = "append_data"
    /\ UNCHANGED pureVars
    /\ \/ /\ ~opathSet
          /\ vpc' = "imshow"
          /\ UNCHANGED << writer, sink, mpc, exit, exc >>
       \/ /\ opathSet
          /\ writer' = [writer EXCEPT ![i] = Use(@)]
          /\ sink' = [sink EXCEPT ![i] = append_data(@, vframe)]
          /\ vpc' = "imshow"
          /\ UNCHANGED << mpc, exit, exc >>
       \/ /\ opathSet /\ paths[i].fault = "append_data"
          /\ Raise("append_data")
          /\ UNCHANGED << writer, sink >>
    /\ UNCHANGED << args, paths, vframe, i, reader, bar, progress, saved, nframes, cur, quit,
                    reports >>

\* lines 143-147: the preview, and the quit key
VShow ==
    /\ vpc = "imshow"
    /\ UNCHANGED pureVars
    /\ \/ vpc' = "update" /\ UNCHANGED quit
       \/ show /\ quit' = TRUE /\ vpc' = "close_reader"
    /\ UNCHANGED << args, paths, vframe, mpc, i, handleVars, sink, progress, saved, nframes, cur,
                    reports, exit, exc >>

\* line 148
VUpdate ==
    /\ vpc = "update"
    /\ UNCHANGED pureVars
    /\ bar' = [bar EXCEPT ![i] = Use(@)]
    /\ progress' = [progress EXCEPT ![i] = @ + 1]
    /\ vpc' = "read"
    /\ UNCHANGED << args, paths, vframe, mpc, i, reader, writer, sink, saved, nframes, cur, quit,
                    reports, exit, exc >>

\* a mutant of VCloseReader: the reader is left open
VCloseReader_skipped ==
    /\ vpc = "close_reader"
    /\ UNCHANGED pureVars
    /\ vpc' = "close_writer"
    /\ UNCHANGED << args, paths, vframe, mpc, i, handleVars, sink, progress, saved,
                    nframes, cur, quit, reports, exit, exc >>

\* line 149
VCloseReader ==
    /\ vpc = "close_reader"
    /\ UNCHANGED pureVars
    /\ reader' = [reader EXCEPT ![i] = Close(@)]
    /\ vpc' = "close_writer"
    /\ UNCHANGED << args, paths, vframe, mpc, i, writer, bar, sink, progress, saved, nframes, cur,
                    quit, reports, exit, exc >>

\* a mutant of VCloseWriter: writer.close() without the test of line 150
VCloseWriter_always ==
    /\ vpc = "close_writer"
    /\ UNCHANGED pureVars
    /\ writer' = [writer EXCEPT ![i] = Close(@)]
    /\ vpc' = "close_bar"
    /\ UNCHANGED << args, paths, vframe, mpc, i, reader, bar, sink, progress, saved,
                    nframes, cur, quit, reports, exit, exc >>

\* lines 150-151
VCloseWriter ==
    /\ vpc = "close_writer"
    /\ UNCHANGED pureVars
    /\ writer' = IF opathSet THEN [writer EXCEPT ![i] = Close(@)] ELSE writer
    /\ vpc' = "close_bar"
    /\ UNCHANGED << args, paths, vframe, mpc, i, reader, bar, sink, progress, saved, nframes, cur,
                    quit, reports, exit, exc >>

\* line 152, and the return
VCloseBar ==
    /\ vpc = "close_bar"
    /\ UNCHANGED pureVars
    /\ bar' = [bar EXCEPT ![i] = Close(@)]
    /\ ReturnVideo
    /\ UNCHANGED << args, paths, vframe, i, reader, writer, sink, progress, saved, nframes, cur,
                    quit, reports, exc >>

Next ==
    \/ MainCamera \/ MainVideoFile \/ MainImageFile \/ MainUnknownFile \/ MainMissing
    \/ MainDir
    \/ BatchVideo \/ BatchImage \/ BatchSkip \/ BatchNoMime \/ BatchEnd
    \/ ImageDetect
    \/ VGetReader \/ VGetMetaData \/ VBar \/ VGetWriter
    \/ VRead \/ VDetect \/ VAnonymize \/ VWrite \/ VShow \/ VUpdate
    \/ VCloseReader \/ VCloseWriter \/ VCloseBar

Spec == InitMain /\ [][Next]_vars

----------------------------------------------------------------------------
(* SpecVideo: main on one camera or one video file, that is one call of   *)
(* video_detect, with the fairness of a sequential program: a step that    *)
(* can be taken is taken.  (A camera delivers at most MaxFrames frames in  *)
(* the model; a run that has taken them all stops where it is.)            *)

InitVideo ==
    /\ InitMain
    /\ cam \/ (args.input = "file" /\ paths[1].mime = "video")

NextVideo ==
    \/ MainCamera \/ MainVideoFile
    \/ VGetReader \/ VGetMetaData \/ VBar \/ VGetWriter
    \/ VRead \/ VDetect \/ VAnonymize \/ VWrite \/ VShow \/ VUpdate
    \/ VCloseReader \/ VCloseWriter \/ VCloseBar

SpecVideo == InitVideo /\ [][NextVideo]_vars /\ WF_vars(NextVideo)

----------------------------------------------------------------------------
(* The claims.  Helpers first. *)

Handles == DOMAIN reader

NoneOpen(k) == reader[k] # "open" /\ writer[k] # "open" /\ bar[k] # "open"

\* the item's output exists and is complete
HasOutput(k) == k \in saved \/ writer[k] = "closed"

Reported(k) == \E n \in 1..Len(reports) : reports[n].item = k

UnknownType(k) == paths[k].mime \in {"text", "none"}

\* where video_detect stands once the loop of line 131 is left
AfterLoop == {"close_reader", "close_writer", "close_bar", "idle"}

InBox(p, b) == b[1] <= p[2] /\ p[2] <= b[3] /\ b[2] <= p[1] /\ p[1] <= b[4]

\* the box reaches beyond the w x h frame on some side
Beyond(b, f) == b[1] < 0 \/ b[2] < 0 \/ b[3] > f.w - 1 \/ b[4] > f.h - 1

Changed(f, g) == { p \in DOMAIN f.pix : f.pix[p] # g.pix[p] }

\* C1 (as claimed; the code violates it): whenever video_detect has been
\* left, by return or by an exception, no reader, writer or progress
\* indicator that was opened is still open.
C1_HandlesClosedOnLeave ==
    vpc = "idle" => \A k \in Handles : NoneOpen(k)

\* C2 (as claimed; the code violates it): when a directory run over files
\* of known types (videos, images, .txt files), on which the detector does
\* not fail, ends, it ends with status 0, every discovered item was
\* attempted, and every item has either a complete output or a report.
C2_BatchContinues ==
    (/\ args # <<>> /\ batch /\ mpc = "exit"
     /\ \A k \in 1..Len(paths) :
           paths[k].mime # "none" /\ paths[k].fault # "centerface") =>
        /\ exit = "ok"
        /\ i = Len(paths)
        /\ \A k \in 1..Len(paths) : HasOutput(k) \/ Reported(k)

\* C3 (as claimed; the code violates it): in a directory run every item
\* reached whose type is neither video nor image (type None included) has
\* been reported, and no AttributeError was raised.
C3_UnknownTypeSkipped ==
    (args # <<>> /\ batch) =>
        /\ exc # "AttributeError"
        /\ \A k \in 1..i : UnknownType(k) => Reported(k)

\* C4 (as claimed; the code violates it): a single-item run whose source
\* cannot be opened, or whose metadata cannot be read, ends with a nonzero
\* status.
C4_SingleOpenFailureFatal ==
    (/\ args # <<>>
     /\ args.input \in {"file", "camera"}
     /\ mpc = "exit"
     /\ paths[1].fault \in {"get_reader", "get_meta_data", "imread"})
    => exit = "error"

\* C5: once the quit key was pressed during frame N (cur) of a stream with
\* an output sink, the loop has been left, the sink holds exactly frames
\* 1..N in order, and when video_detect has returned, reader, writer and
\* progress indicator are closed.
C5_QuitKeepsFrames ==
    (quit /\ opathSet) =>
        /\ vpc \in AfterLoop
        /\ [n \in 1..Len(sink[i]) |-> sink[i][n].n] = [n \in 1..cur |-> n]
        /\ vpc = "idle" =>
              reader[i] = "closed" /\ writer[i] = "closed" /\ bar[i] = "closed"

\* C5 witness: the quit key on the second frame, after the return
C5_Witness ==
    /\ quit /\ args.output /\ vpc = "idle" /\ cur = 2
    /\ Len(sink[i]) = 2 /\ sink[i][2].n = 2 /\ writer[i] = "closed"

\* C6 (as claimed; the code violates it): the region passed to draw_det
\* satisfies 0 <= x1 <= x2 < W and 0 <= y1 <= y2 < H.
C6_RegionInFrame ==
    region # <<>> =>
        /\ 0 <= region[1] /\ region[1] <= region[3] /\ region[3] < frame.w
        /\ 0 <= region[2] /\ region[2] <= region[4] /\ region[4] < frame.h

\* C7 (as claimed; the code violates it): for a box that reaches beyond the
\* frame, one pass of anonymize_frame raises no index error and changes only
\* pixels inside the scaled box.
C7_ChangesInsideBox ==
    [][ (AnonymizeDet /\ Beyond(box', frame)) =>
           /\ ferr' # "IndexError"
           /\ \A p \in Changed(frame, frame') : InBox(p, box') ]_vars

\* the region lies in the w x h frame, x1 <= x2 and y1 <= y2
WellFormed(r, f) ==
    /\ 0 <= r[1] /\ r[1] <= r[3] /\ r[3] < f.w
    /\ 0 <= r[2] /\ r[2] <= r[4] /\ r[4] < f.h

\* C8 (as claimed; the code violates it): with annotation disabled, a pass
\* whose region lies in the frame and has x1 = x2 or y1 = y2 changes
\* nothing and raises nothing.
C8_ZeroAreaNoop ==
    [][ (/\ AnonymizeDet
         /\ ~cfg.enumerate_dets
         /\ WellFormed(region', frame)
         /\ (region'[1] = region'[3] \/ region'[2] = region'[4]))
        => (frame' = frame /\ ferr' = "none") ]_vars

\* C9: with mode 'none' and annotation disabled, anonymize_frame leaves the
\* frame as it was read (no pixel written, no label drawn) and raises
\* nothing, however many detections it has processed.
C9_NoneIsIdentity ==
    (cfg # <<>> /\ cfg.replacewith = "none" /\ ~cfg.enumerate_dets) =>
        /\ frame = NewFrame(frame.w, frame.h)
        /\ ferr = "none"

\* C9 witness: two detections processed in mode 'none', the last on a
\* region with an area inside the frame
C9_Witness ==
    /\ cfg # <<>> /\ cfg.replacewith = "none" /\ ~cfg.enumerate_dets
    /\ Len(dets) = 2 /\ di = 3
    /\ 0 <= region[1] /\ region[1] < region[3] /\ region[3] < frame.w
    /\ 0 <= region[2] /\ region[2] < region[4] /\ region[4] < frame.h

\* C10 (as claimed; refuted): for every box and every scale above 1, the
\* scaled box strictly contains the box, and width and height grow by the
\* rounded 2*w*(m-1) and 2*h*(m-1).
C10_StrictlyContains ==
    (sbOut # <<>> /\ sbIn.m[1] > sbIn.m[2]) =>
        LET b  == sbIn.box
            sn == sbIn.m[1] - sbIn.m[2]
            sd == sbIn.m[2]
        IN  /\ sbOut[1] < b[1] /\ sbOut[2] < b[2]
            /\ sbOut[3] > b[3] /\ sbOut[4] > b[4]
            /\ (sbOut[3] - sbOut[1]) - (b[3] - b[1]) = NpRound(2 * (b[3] - b[1]) * sn, sd)
            /\ (sbOut[4] - sbOut[2]) - (b[4] - b[2]) = NpRound(2 * (b[4] - b[2]) * sn, sd)

\* C10 (amended): for every box with x1 <= x2 and y1 <= y2 and every scale
\* above 1, the scaled box contains the box, strictly on both sides of an
\* axis whose extent times (m-1) is at least 1, and its width and height
\* are within one pixel of w + 2*w*(m-1) and h + 2*h*(m-1).
C10_Contains ==
    (/\ sbOut # <<>>
     /\ sbIn.m[1] > sbIn.m[2]
     /\ sbIn.box[1] <= sbIn.box[3]
     /\ sbIn.box[2] <= sbIn.box[4]) =>
        LET b  == sbIn.box
            sn == sbIn.m[1] - sbIn.m[2]
            sd == sbIn.m[2]
            w  == b[3] - b[1]
            h  == b[4] - b[2]
        IN  /\ sbOut[1] <= b[1] /\ sbOut[2] <= b[2]
            /\ sbOut[3] >= b[3] /\ sbOut[4] >= b[4]
            /\ w * sn >= sd => (sbOut[1] < b[1] /\ sbOut[3] > b[3])
            /\ h * sn >= sd => (sbOut[2] < b[2] /\ sbOut[4] > b[4])
            /\ Abs(sd * ((sbOut[3] - sbOut[1]) - w) - 2 * w * sn) <= sd
            /\ Abs(sd * ((sbOut[4] - sbOut[2]) - h) - 2 * h * sn) <= sd

\* C10 witness: the box (0,0)-(2,2) scaled by 1.5 has become (-1,-1)-(3,3)
C10_Witness ==
    /\ sbIn # <<>> /\ sbIn.box = << 0, 0, 2, 2 >> /\ sbIn.m = << 3, 2 >>
    /\ sbOut = << -1, -1, 3, 3 >>

\* the detector was called on the frame with the threshold of the command
\* line, and anonymize_frame was handed the list the detector returned
PassedOn(f) == f.thr = args.thresh /\ f.handed = f.dets

\* the detections redacted in a frame on which draw_det raised are the ones
\* handed over before the raising one, in their order
RedactedBeforeRaise(f) ==
    \E k \in 1..Len(f.handed) : f.masked = SubSeq(f.handed, 1, k - 1)

\* C11: the detector is called with the threshold of the command line on
\* every frame, and anonymize_frame is handed exactly the list the detector
\* returned, in its order, whether it then returns or raises, for the frame
\* in hand and for every frame already written.  When anonymize_frame
\* returns, every detection of that list is redacted; when draw_det raises
\* in it, the detections before the raising one are.  For candidate scores
\* 0.1, 0.3, 0.9 and threshold 0.2 the two detections with scores 0.3 and
\* 0.9 are handed over, and both are redacted when anonymize_frame returns.
C11_DetectionsPassedOn ==
    /\ vframe.stage \in {"detected", "detector raised"} => vframe.thr = args.thresh
    /\ vframe.stage \in {"anonymized", "anonymize raised"} => PassedOn(vframe)
    /\ vframe.stage = "anonymized" => vframe.masked = vframe.dets
    /\ vframe.stage = "anonymize raised" => RedactedBeforeRaise(vframe)
    /\ \A k \in DOMAIN sink : \A n \in 1..Len(sink[k]) :
          PassedOn(sink[k][n]) /\ sink[k][n].masked = sink[k][n].dets
    /\ (vframe.stage \in {"anonymized", "anonymize raised"} /\ args.thresh = 20) =>
          vframe.handed = << 30, 90 >>
    /\ (vframe.stage = "anonymized" /\ args.thresh = 20) => vframe.masked = << 30, 90 >>

\* C11 witness: the second frame of a video was handed to anonymize_frame
\* with the two detections the detector returned at threshold 0.2, and both
\* were redacted
C11_Witness ==
    /\ vpc = "append_data" /\ cur = 2 /\ args.thresh = 20
    /\ vframe.stage = "anonymized" /\ vframe.dets = << 30, 90 >>
    /\ vframe.handed = << 30, 90 >> /\ vframe.masked = << 30, 90 >>

\* C13 (as claimed; the code violates it): once the loop of video_detect is
\* left, the progress indicator was updated once for every frame read, and
\* every frame read was written when a sink is open.
C13_ProgressPerFrame ==
    vpc \in {"close_reader", "close_writer", "close_bar"} =>
        /\ progress[i] = cur
        /\ opathSet => Len(sink[i]) = cur

\* C14: when the detector has raised on a frame, the error has left
\* video_detect or image_detect and ended the process with an error status,
\* and the frame was neither handed to anonymize_frame nor redacted nor
\* written nor saved.
C14_DetectorErrorPropagates ==
    vframe.stage = "detector raised" =>
        /\ exc = "centerface" /\ exit = "error" /\ mpc = "exit" /\ vpc = "idle"
        /\ vframe.handed = <<>> /\ vframe.masked = <<>>
        /\ i \notin saved
        /\ \A n \in 1..Len(sink[i]) : sink[i][n].n # vframe.n

\* C14 witness: the detector raised on the second frame of a video whose
\* first frame was written
C14_Witness ==
    /\ vframe.stage = "detector raised" /\ vframe.n = 2
    /\ Len(sink[i]) = 1 /\ exc = "centerface"

\* the items that hold an open reader, writer or progress indicator
Owners == { k \in Handles : ~NoneOpen(k) }

\* C15 (as claimed; the code violates it): in a directory run at most one
\* item holds an open handle, and none does between two items.
C15_OneOwner ==
    (args # <<>> /\ batch) =>
        /\ Cardinality(Owners) <= 1
        /\ mpc = "loop" => Owners = {}

\* what a handle is after a use the code must not make of it
Misuses == {"reopened", "unbound", "used after close", "closed twice"}

\* the number of frames the sink of the item in hand holds when n frames
\* were written
Written(n) == IF opathSet THEN n ELSE 0

\* C16: inside video_detect the sink is opened at most once and before the
\* first frame is read; the frame in hand is detected, then anonymized,
\* then written, then shown; a frame is read only when every earlier frame
\* was written; the sink holds the anonymized frames 1, 2, ... in order,
\* and a frame on which anonymize_frame raised is not among them.
C16_StepsInOrder ==
    /\ \A k \in Handles : \A n \in 1..Len(sink[k]) :
          sink[k][n].n = n /\ sink[k][n].stage = "anonymized"
    /\ vpc # "idle" =>
          /\ writer[i] \notin Misuses
          /\ (cur >= 1 /\ opathSet) => writer[i] # "none"
          /\ vpc = "centerface" => vframe.stage = "read"
          /\ vpc = "anonymize_frame" => vframe.stage = "detected"
          /\ vpc \in {"append_data", "imshow", "update"} => vframe.stage = "anonymized"
          /\ vpc \in {"centerface", "anonymize_frame", "append_data"} =>
                vframe.n = cur /\ Len(sink[i]) = Written(cur - 1)
          /\ vpc \in {"imshow", "update", "read"} => Len(sink[i]) = Written(cur)
    /\ vframe.stage = "anonymize raised" =>
          /\ vpc = "idle" /\ mpc = "exit"
          /\ \A n \in 1..Len(sink[i]) : sink[i][n].n # vframe.n

\* C16 witness: the second frame is being shown after it was written
C16_Witness ==
    /\ vpc = "imshow" /\ show /\ cur = 2 /\ Len(sink[i]) = 2
    /\ sink[i][2] = vframe /\ vframe.stage = "anonymized"

\* C17: no handle is ever reopened, used before it was opened or after it
\* was closed, or closed twice; and once the progress indicator of an item
\* is closed (the last step of the exits by exhaustion and by the quit
\* key), its reader is closed, and its writer is closed if one was opened.
C17_ClosedOnce ==
    \A k \in Handles :
        /\ reader[k] \notin Misuses /\ writer[k] \notin Misuses /\ bar[k] \notin Misuses
        /\ bar[k] = "closed" =>
              /\ reader[k] = "closed"
              /\ writer[k] \in {"none", "closed"}

\* C17 witness: a file of two frames was read to its end, and video_detect
\* has returned with reader, writer and progress indicator closed
C17_Witness ==
    /\ vpc = "idle" /\ ~quit /\ i = 1 /\ args.input = "file" /\ cur = 2 /\ nframes = 2
    /\ reader[1] = "closed" /\ writer[1] = "closed" /\ bar[1] = "closed"

\* C18: without an output path no writer is opened, appended to or closed;
\* with one, the writer is used only between its opening and its close,
\* and frames are in the sink only if it was opened.
C18_SinkOnlyWithOutput ==
    \A k \in Handles :
        /\ ~opathSet => (writer[k] = "none" /\ sink[k] = <<>>)
        /\ opathSet =>
              /\ writer[k] \in {"none", "open", "closed"}
              /\ sink[k] # <<>> => writer[k] # "none"

\* C18 witness: a camera run without --output has processed two frames and
\* returned after the quit key, and no writer was touched
C18_Witness ==
    /\ cam /\ ~args.output /\ vpc = "idle" /\ quit /\ cur = 2
    /\ bar[1] = "closed" /\ writer[1] = "none" /\ sink[1] = <<>>

\* video_detect is past its loop, on the way to the return
Closing == vpc \in {"close_reader", "close_writer", "close_bar"}

\* C19: a video file whose frames are being read leads to the closing steps
\* unless an error ends the run; there, exactly nframes frames were
\* processed if no quit key was pressed and at most nframes otherwise.  A
\* camera run reaches the closing steps only by the quit key, with the
\* preview enabled.
C19_LoopEnds ==
    /\ (~cam /\ vpc = "read") ~> (Closing \/ exc # "none")
    /\ [](Closing =>
            IF cam
            THEN quit /\ show
            ELSE /\ cur <= nframes
                 /\ Len(sink[i]) = cur
                 /\ ~quit => (cur = nframes /\ progress[i] = nframes))

\* C19 witness: a file of two frames was read to its end without the quit
\* key, and the loop has just been left
C19_Witness ==
    /\ ~cam /\ vpc = "close_reader" /\ ~quit /\ nframes = 2 /\ cur = 2
    /\ progress[i] = 2 /\ reader[i] = "open"

\* k symbols of p are root and the rest is the file extension of p: the
\* rest starts with the only "." in it, has no "/", and in the last
\* component of p something other than "." precedes it
ExtAt(p, k) ==
    /\ k < Len(p) /\ p[k + 1] = "."
    /\ \A j \in (k + 2)..Len(p) : p[j] \notin {".", "/"}
    /\ \E j \in 1..k : p[j] # "." /\ \A m \in j..k : p[m] # "/"

\* q is p with the suffix inserted before the file extension, or at the
\* end if p has none
Inserted(p, q) ==
    \E k \in 0..Len(p) :
        /\ q = SubSeq(p, 1, k) \o << "_anonymized" >> \o SubSeq(p, k + 1, Len(p))
        /\ ExtAt(p, k) \/ (k = Len(p) /\ \A j \in 0..Len(p) : ~ExtAt(p, j))

\* C12: the opath passed on for a single input is --output unchanged if it
\* was given, and otherwise (the input not being a camera) the input path
\* with '_anonymized' inserted before the extension; for every file of a
\* directory it is the file's path with the suffix so inserted, whatever
\* --output says; a.a gives a_anonymized.a.
C12_OutputPath ==
    \A n \in 1..Len(pOut) :
        LET ip == pOut[n].ipath
            op == pOut[n].opath
        IN  /\ (pIn.isdir /\ ~startswith_video(pIn.ipath)) => Inserted(ip, op)
            /\ (~pIn.isdir /\ pIn.output # None) => op = pIn.output
            /\ (~pIn.isdir /\ pIn.output = None /\ ~startswith_video(ip)) =>
                  Inserted(ip, op)
            /\ ip = << "a", ".", "a" >> /\ Inserted(ip, op) =>
                  op = << "a", "_anonymized", ".", "a" >>

\* C12 witness: a.a without --output has been given a_anonymized.a
C12_Witness ==
    /\ pk = 1 /\ ~pIn.isdir /\ pIn.output = None
    /\ pOut = << [ipath |-> << "a", ".", "a" >>,
                  opath |-> << "a", "_anonymized", ".", "a" >>] >>

\* C20 (as claimed; the code violates it): in a directory run the listing
\* is the one taken at the start, and no output path handed to video_detect
\* or image_detect so far is the path of a listed file that is still to be
\* read.
C20_NoInterference ==
    (pIn # <<>> /\ pIn.isdir) =>
        \A n \in 1..Len(pOut) : \A m \in (pk + 1)..Len(pIn.listing) :
            (pIn.turns[n].mime \in {"video", "image"} /\ ~LeavesLoop(pIn.turns[pk])) =>
                pOut[n].opath # pIn.listing[m]

====
